---- MODULE Spec2Model ----
(***************************************************************************)
(* mio::basic_mmap<AccessMode, CharT> (include/mio/mmap.hpp): the public   *)
(* wrapper around detail::basic_mmap<CharT>.  The wrapper is translated     *)
(* from mmap.hpp.  detail/basic_mmap.hpp is not part of the sources, so the *)
(* primitive (the impl_* operators, the page alignment and the OS calls)    *)
(* is written from the specification's sections 3, 4.1, 4.2 and 7.          *)
(***************************************************************************)
EXTENDS Integers, Sequences, FiniteSets, TLC

\* ------------------------------------------------------------------ bounds
FileSize    == 1    \* size in bytes of the backing file
Granularity == 2    \* the page allocation granularity of the OS
MaxArg      == 2    \* largest element count passed to set_length/set_offset
Stride      == 256  \* distance between two base addresses

\* two objects: every operation of the class involves at most two
Inst    == {1, 2}
Slots   == 1..(Cardinality(Inst) + 1)     \* base addresses the OS can hand out
Handles == 1..(Cardinality(Inst) + 2)     \* file descriptors

\* the sentinel of mmap.hpp line 36 (its value lives in detail/)
map_entire_file == -1

ElemSizes == {1, 2, 4}
Offsets   == {0, 1, FileSize + 1}
Lengths   == {0, FileSize, map_entire_file}
PathOutcomes   == {"ok", "open_fail", "size_fail", "mmap_fail"}
HandleOutcomes == {"ok", "size_fail", "mmap_fail"}

VARIABLES
    sz,      \* sizeof(CharT)
    gran,    \* the page allocation granularity of the OS
    fsize,   \* the size of the backing file
    alive,   \* alive[i]: an object lives in slot i
    objs,    \* objs[i]: the state of impl_ of the object in slot i
    os,      \* the OS: live mappings, file handles, calls on stale arguments
    last     \* what the last public operation was and did (ghost)

vars == <<sz, gran, fsize, alive, objs, os, last>>

\* ------------------------------------------------------------ the OS side
\* a default constructed primitive: the unmapped state
Unmapped ==
    [data |-> 0, length |-> 0, mapped_length |-> 0, offset |-> 0,
     offset_delta |-> 0, file_handle |-> 0, internal |-> FALSE]

Res(o, s, e) == [o |-> o, os |-> s, err |-> e]

\* the address the OS gives the next mapping: the lowest one not in use
LiveBases(s) == {m.base : m \in s.live}
FreeBases(s) == {slot * Stride : slot \in Slots} \ LiveBases(s)
NewBase(s)   == CHOOSE b \in FreeBases(s) : \A c \in FreeBases(s) : b <= c

\* the OS map call: len bytes of the file from file offset off, at NewBase
os_mmap(s, off, len) ==
    [s EXCEPT !.live = @ \cup {[base |-> NewBase(s), off |-> off, len |-> len]}]

\* the OS unmap call; a call on an address that holds no mapping is recorded
os_munmap(s, base) ==
    IF base \in LiveBases(s) THEN [s EXCEPT !.live = {m \in @ : m.base # base}]
    ELSE [s EXCEPT !.bad_unmap = TRUE]

FreeHandles(s) == {h \in Handles : s.hs[h] = "free"}
LowestFree(s)  == CHOOSE h \in FreeHandles(s) : \A g \in FreeHandles(s) : h <= g

\* the file-opening service: the lowest free descriptor, opened for owner
os_open(s, owner) == [s EXCEPT !.hs[LowestFree(s)] = owner]

\* close of handle h issued by the mapped region: a close of a handle that
\* is not open, and a close of a handle of the caller, are recorded
os_close(s, h) ==
    IF h \notin Handles \/ s.hs[h] = "free" THEN [s EXCEPT !.bad_close = TRUE]
    ELSE IF s.hs[h] = "caller" THEN [s EXCEPT !.hs[h] = "free", !.ext_closed = TRUE]
    ELSE [s EXCEPT !.hs[h] = "free"]

\* ---------------------------------------------- the primitive (spec 4.1/4.2)
impl_is_open(o) == o.data # 0
impl_empty(o)   == o.length = 0
impl_length(o)  == o.length
impl_mapped_length(o) == o.mapped_length
impl_offset(o)  == o.offset
impl_data(o)    == o.data
impl_file_handle(o) == o.file_handle

\* 4.1: aligned_os_offset = offset - (offset mod granularity)
make_offset_page_aligned(offset) == offset - (offset % gran)

\* 4.2 unmap: releases the mapping if mapped, closes the handle if internal
impl_unmap(o, s) ==
    IF ~impl_is_open(o) THEN Res(o, s, "none")
    ELSE LET s1 == os_munmap(s, o.data - o.offset_delta)
             s2 == IF o.internal THEN os_close(s1, o.file_handle) ELSE s1
         IN  Res(Unmapped, s2, "none")

\* 4.1 + 4.2 map from a handle.  A request of 0 bytes leaves the instance
\* unmapped (4.3); a failure leaves it as it was (7).
impl_map_handle(o, s, h, offset, n, outcome) ==
    IF n = 0 THEN impl_unmap(o, s)
    ELSE IF h = 0 THEN Res(o, s, "bad_file_descriptor")
    ELSE IF outcome = "size_fail" THEN Res(o, s, "size_query")
    ELSE IF offset > fsize THEN Res(o, s, "invalid_argument")
    ELSE LET aligned == make_offset_page_aligned(offset)
             delta   == offset - aligned
             len     == IF n = map_entire_file THEN fsize - offset ELSE n
             tomap   == len + delta
         IN  IF len = 0 THEN impl_unmap(o, s)
             ELSE IF outcome = "mmap_fail" THEN Res(o, s, "mmap")
             ELSE LET s1 == os_mmap(s, aligned, tomap)
                      r  == impl_unmap(o, s1)
                  IN  Res([data |-> NewBase(s) + delta, length |-> len,
                           mapped_length |-> tomap, offset |-> offset,
                           offset_delta |-> delta, file_handle |-> h,
                           internal |-> FALSE], r.os, "none")

\* 4.2 map from a path: opens the file (ownership acquired), then maps
impl_map_path(o, s, offset, n, outcome) ==
    IF n = 0 THEN impl_unmap(o, s)
    ELSE IF outcome = "open_fail" THEN Res(o, s, "open")
    ELSE LET h  == LowestFree(s)
             s1 == os_open(s, "internal")
             r  == impl_map_handle(o, s1, h, offset, n, outcome)
         IN  IF r.err # "none" \/ ~impl_is_open(r.o)
             THEN Res(r.o, os_close(r.os, h), r.err)
             ELSE Res([r.o EXCEPT !.internal = TRUE], r.os, "none")

\* 4.3 set_length: fails if new_length + offset_delta > mapped_length
impl_set_length(o, bytes) ==
    IF bytes + o.offset_delta > o.mapped_length
    THEN Res(o, 0, "invalid_argument")
    ELSE Res([o EXCEPT !.length = bytes], 0, "none")

\* 4.3 set_offset: "analogous, bounded by mapped_length"; it moves the
\* start of the conceptual range and leaves the OS mapping alone
impl_set_offset(o, bytes) ==
    IF bytes > o.mapped_length
    THEN Res(o, 0, "invalid_argument")
    ELSE Res([o EXCEPT !.offset = bytes, !.offset_delta = bytes,
                       !.data = IF o.data = 0 THEN 0
                                ELSE o.data - o.offset_delta + bytes], 0, "none")

\* 3: the state is transferred, never duplicated
impl_move_ctor(src) == [dst |-> src, src |-> Unmapped]

impl_move_assign(dst, src, s) ==
    LET r == impl_unmap(dst, s)
    IN  [dst |-> src, src |-> Unmapped, os |-> r.os]

impl_dtor(o, s) == impl_unmap(o, s)

impl_swap(a, b) == [a |-> b, b |-> a]

\* 4.2: equality compares (data_pointer, mapped_length)
impl_eq(a, b) == a.data = b.data /\ a.mapped_length = b.mapped_length

\* ------------------------------------------------ the wrapper (mmap.hpp)
\* a shift by sizeof(CharT) instead of sizeof(CharT) - 1
char_size_shift_sizeof(num_bytes) == num_bytes \div (2 ^ sz)

char_size(num_bytes) == num_bytes \div (2 ^ (sz - 1))
byte_size(num_bytes) == num_bytes * (2 ^ (sz - 1))

file_handle(o)    == impl_file_handle(o)
is_open(o)        == impl_is_open(o)
empty(o)          == impl_empty(o)
size(o)           == char_size(impl_length(o))
length(o)         == char_size(impl_length(o))
mapped_length(o)  == char_size(impl_mapped_length(o))
offset(o)         == char_size(impl_offset(o))
data(o)           == impl_data(o)

set_length(o, len) == impl_set_length(o, byte_size(len))
set_offset(o, off) == impl_set_offset(o, byte_size(off))

\* a map that releases the current mapping before it tries the new one
map_path_unmap_first(o, s, off, num_bytes, outcome) ==
    LET u == impl_unmap(o, s)
    IN  impl_map_path(u.o, u.os, off, num_bytes, outcome)

map_path(o, s, off, num_bytes, outcome) ==
    impl_map_path(o, s, off, num_bytes, outcome)

\* a map from a handle that takes the handle for its own
map_handle_owning(o, s, h, off, num_bytes, outcome) ==
    LET r == impl_map_handle(o, s, h, off, num_bytes, outcome)
    IN  IF r.err = "none" /\ impl_is_open(r.o)
        THEN Res([r.o EXCEPT !.internal = TRUE], r.os, r.err) ELSE r

\* a map from a handle that reads 0 bytes as "the entire file"
map_handle_zero_entire(o, s, h, off, num_bytes, outcome) ==
    impl_map_handle(o, s, h, off, IF num_bytes = 0 THEN map_entire_file ELSE num_bytes,
                    outcome)

map_handle(o, s, h, off, num_bytes, outcome) ==
    impl_map_handle(o, s, h, off, num_bytes, outcome)

unmap(o, s) == impl_unmap(o, s)
swap(a, b)  == impl_swap(a, b)
eq(a, b)    == impl_eq(a, b)

\* a move that copies the members and leaves the source as it was
move_ctor_copy(src) == [dst |-> src, src |-> src]

move_ctor(src)           == impl_move_ctor(src)

\* a move-assignment that overwrites the destination without releasing it
move_assign_overwrite(dst, src, s) == [dst |-> src, src |-> Unmapped, os |-> s]

move_assign(dst, src, s) == impl_move_assign(dst, src, s)
dtor(o, s)               == impl_dtor(o, s)

\* a constructor that throws: the object never lives, its impl_ member is
\* destroyed during unwinding
Thrown(r) == [ok |-> FALSE, o |-> Unmapped, os |-> impl_dtor(r.o, r.os).os, err |-> r.err]
Built(r)  == [ok |-> TRUE, o |-> r.o, os |-> r.os, err |-> "none"]

\* basic_mmap(const String& path, offset, num_bytes)
ctor_path(s, off, num_bytes, outcome) ==
    LET r == map_path(Unmapped, s, off, num_bytes, outcome)
    IN  IF r.err # "none" THEN Thrown(r) ELSE Built(r)

\* basic_mmap(const handle_type handle, offset, num_bytes): the third
\* argument of map is `length`, the member of the object being built, and
\* not the parameter num_bytes
ctor_handle(s, h, off, num_bytes, outcome) ==
    LET r == map_handle(Unmapped, s, h, off, length(Unmapped), outcome)
    IN  IF r.err # "none" THEN Thrown(r) ELSE Built(r)

\* make_mmap: a local object is mapped and returned, by a move unless the
\* copy is elided
make_mmap(r, elide) ==
    IF elide THEN Res(r.o, r.os, r.err)
    ELSE LET mv == move_ctor(r.o)
         IN  Res(mv.dst, dtor(mv.src, r.os).os, r.err)

\* ------------------------------------------------------------- the machine
CallerHandles(s) == {h \in Handles : s.hs[h] = "caller"}
HandleArgs(s) == {0} \cup CallerHandles(s)
CanOpen(s, num_bytes, outcome) ==
    num_bytes = 0 \/ outcome = "open_fail" \/ FreeHandles(s) # {}

\* what a map call that took o to r did
MapTag(o, r, num_bytes) ==
    IF r.err # "none" THEN (IF is_open(o) THEN "map_fail_mapped" ELSE "map_fail")
    ELSE IF num_bytes = 0 THEN "map_zero"
    ELSE IF is_open(o) /\ is_open(r.o) THEN "remap" ELSE "op"

\* what an operation that releases o did
EndTag(o) ==
    IF ~is_open(o) THEN "op"
    ELSE IF o.internal THEN "release_internal" ELSE "release_external"

InitWith(sizes, grans, fs) ==
    /\ sz \in sizes
    /\ gran \in grans
    /\ fsize = fs
    /\ alive = [i \in Inst |-> FALSE]
    /\ objs = [i \in Inst |-> Unmapped]
    /\ os = [live |-> {}, hs |-> [h \in Handles |-> "free"],
             bad_unmap |-> FALSE, bad_close |-> FALSE, ext_closed |-> FALSE]
    /\ last = "init"

\* the lifecycle does not depend on the element size: char and char16_t
Init == InitWith({1, 2}, {Granularity}, FileSize)

Fixed == UNCHANGED <<sz, gran, fsize>>

\* the caller opens the file itself, to pass the handle to map
CallerOpen ==
    /\ CallerHandles(os) = {} /\ FreeHandles(os) # {}
    /\ os' = os_open(os, "caller")
    /\ last' = "op"
    /\ UNCHANGED <<alive, objs>> /\ Fixed

\* the caller closes a handle of its own that no object refers to
CallerClose(h) ==
    /\ os.hs[h] = "caller"
    /\ \A i \in Inst : ~(alive[i] /\ objs[i].file_handle = h)
    /\ os' = [os EXCEPT !.hs[h] = "free"]
    /\ last' = "op"
    /\ UNCHANGED <<alive, objs>> /\ Fixed

DefaultCtor(i) ==
    /\ ~alive[i]
    /\ alive' = [alive EXCEPT ![i] = TRUE]
    /\ objs' = [objs EXCEPT ![i] = Unmapped]
    /\ last' = "op"
    /\ UNCHANGED os /\ Fixed

PathCtor(i, off, n, outcome) ==
    /\ ~alive[i] /\ CanOpen(os, n, outcome)
    /\ LET c == ctor_path(os, off, n, outcome)
       IN  /\ alive' = [alive EXCEPT ![i] = c.ok]
           /\ objs' = [objs EXCEPT ![i] = c.o]
           /\ os' = c.os
           /\ last' = "op"
    /\ Fixed

HandleCtor(i, h, off, n, outcome) ==
    /\ ~alive[i] /\ h \in HandleArgs(os)
    /\ LET c == ctor_handle(os, h, off, n, outcome)
       IN  /\ alive' = [alive EXCEPT ![i] = c.ok]
           /\ objs' = [objs EXCEPT ![i] = c.o]
           /\ os' = c.os
           /\ last' = IF c.ok THEN "ctor_handle" ELSE "op"
    /\ Fixed

MakeFromPath(i, off, n, outcome, elide) ==
    /\ ~alive[i] /\ CanOpen(os, n, outcome)
    /\ LET r == make_mmap(map_path(Unmapped, os, off, n, outcome), elide)
       IN  /\ alive' = [alive EXCEPT ![i] = TRUE]
           /\ objs' = [objs EXCEPT ![i] = r.o]
           /\ os' = r.os
           /\ last' = "op"
    /\ Fixed

MakeFromHandle(i, h, off, n, outcome, elide) ==
    /\ ~alive[i] /\ h \in HandleArgs(os)
    /\ LET r == make_mmap(map_handle(Unmapped, os, h, off, n, outcome), elide)
       IN  /\ alive' = [alive EXCEPT ![i] = TRUE]
           /\ objs' = [objs EXCEPT ![i] = r.o]
           /\ os' = r.os
           /\ last' = "op"
    /\ Fixed

MapPath(i, off, n, outcome) ==
    /\ alive[i] /\ CanOpen(os, n, outcome)
    /\ LET r == map_path(objs[i], os, off, n, outcome)
       IN  /\ objs' = [objs EXCEPT ![i] = r.o]
           /\ os' = r.os
           /\ last' = MapTag(objs[i], r, n)
    /\ UNCHANGED alive /\ Fixed

MapHandle(i, h, off, n, outcome) ==
    /\ alive[i] /\ h \in HandleArgs(os)
    /\ LET r == map_handle(objs[i], os, h, off, n, outcome)
       IN  /\ objs' = [objs EXCEPT ![i] = r.o]
           /\ os' = r.os
           /\ last' = MapTag(objs[i], r, n)
    /\ UNCHANGED alive /\ Fixed

Unmap(i) ==
    /\ alive[i]
    /\ LET r == unmap(objs[i], os)
       IN  /\ objs' = [objs EXCEPT ![i] = r.o]
           /\ os' = r.os
    /\ last' = EndTag(objs[i])
    /\ UNCHANGED alive /\ Fixed

SetLength(i, k) ==
    /\ alive[i]
    /\ LET r == set_length(objs[i], k)
       IN  /\ objs' = [objs EXCEPT ![i] = r.o]
           /\ last' = "op"
    /\ UNCHANGED <<alive, os>> /\ Fixed

SetOffset(i, k) ==
    /\ alive[i]
    /\ LET r == set_offset(objs[i], k)
       IN  /\ objs' = [objs EXCEPT ![i] = r.o]
           /\ last' = "op"
    /\ UNCHANGED <<alive, os>> /\ Fixed

Swap(i, j) ==
    /\ alive[i] /\ alive[j]
    /\ LET r == swap(objs[i], objs[j])
       IN  objs' = [objs EXCEPT ![i] = r.a, ![j] = r.b]
    /\ last' = "op"
    /\ UNCHANGED <<alive, os>> /\ Fixed

\* basic_mmap d(std::move(s))
MoveCtor(d, s) ==
    /\ ~alive[d] /\ alive[s]
    /\ LET r == move_ctor(objs[s])
       IN  objs' = [objs EXCEPT ![d] = r.dst, ![s] = r.src]
    /\ alive' = [alive EXCEPT ![d] = TRUE]
    /\ last' = IF is_open(objs[s]) THEN "move_mapped" ELSE "op"
    /\ UNCHANGED os /\ Fixed

\* d = std::move(s)
MoveAssign(d, s) ==
    /\ alive[d] /\ alive[s] /\ d # s
    /\ LET r == move_assign(objs[d], objs[s], os)
       IN  /\ objs' = [objs EXCEPT ![d] = r.dst, ![s] = r.src]
           /\ os' = r.os
    /\ last' = IF is_open(objs[s]) THEN "move_mapped" ELSE "op"
    /\ UNCHANGED alive /\ Fixed

Dtor(i) ==
    /\ alive[i]
    /\ LET r == dtor(objs[i], os)
       IN  os' = r.os
    /\ objs' = [objs EXCEPT ![i] = Unmapped]
    /\ alive' = [alive EXCEPT ![i] = FALSE]
    /\ last' = EndTag(objs[i])
    /\ Fixed

\* the lifecycle: construction, map, unmap, swap, moves, destruction
Next ==
    \/ CallerOpen
    \/ \E h \in Handles : CallerClose(h)
    \/ \E i \in Inst : DefaultCtor(i)
    \/ \E i \in Inst, off \in Offsets, n \in Lengths, outcome \in PathOutcomes :
          PathCtor(i, off, n, outcome)
    \/ \E i \in Inst, h \in Handles \cup {0}, off \in Offsets, n \in Lengths,
          outcome \in HandleOutcomes :
          HandleCtor(i, h, off, n, outcome)
    \/ \E i \in Inst, off \in Offsets, n \in Lengths, outcome \in PathOutcomes,
          elide \in BOOLEAN :
          MakeFromPath(i, off, n, outcome, elide)
    \/ \E i \in Inst, h \in Handles \cup {0}, off \in Offsets, n \in Lengths,
          outcome \in HandleOutcomes, elide \in BOOLEAN :
          MakeFromHandle(i, h, off, n, outcome, elide)
    \/ \E i \in Inst, off \in Offsets, n \in Lengths, outcome \in PathOutcomes :
          MapPath(i, off, n, outcome)
    \/ \E i \in Inst, h \in Handles \cup {0}, off \in Offsets, n \in Lengths,
          outcome \in HandleOutcomes :
          MapHandle(i, h, off, n, outcome)
    \/ \E i \in Inst : Unmap(i)
    \/ \E i \in Inst, j \in Inst : Swap(i, j)
    \/ \E d \in Inst, s \in Inst : MoveCtor(d, s)
    \/ \E d \in Inst, s \in Inst : MoveAssign(d, s)
    \/ \E i \in Inst : Dtor(i)

Spec == Init /\ [][Next]_vars

\* the conceptual range: map, unmap, set_length, set_offset, swap and
\* move-assignment, for every element size
SizeFile    == 8
SizeOffsets == {0, 1, SizeFile + 1}
SizeLengths == {0, 4, map_entire_file}

InitSize == InitWith(ElemSizes, {Granularity}, SizeFile)

NextSize ==
    \/ \E i \in Inst : DefaultCtor(i)
    \/ \E i \in Inst, off \in SizeOffsets, n \in SizeLengths, outcome \in {"ok", "mmap_fail"} :
          MapPath(i, off, n, outcome)
    \/ \E i \in Inst : Unmap(i)
    \/ \E i \in Inst, k \in 0..MaxArg : SetLength(i, k)
    \/ \E i \in Inst, k \in 0..MaxArg : SetOffset(i, k)
    \/ \E i \in Inst, j \in Inst : Swap(i, j)
    \/ \E d \in Inst, s \in Inst : MoveAssign(d, s)
    \/ \E i \in Inst : Dtor(i)

SpecSize == InitSize /\ [][NextSize]_vars

\* the aligned region: byte elements (mmap_source, mmap_sink), a file of
\* 100 bytes, several granularities
CalcFile    == 100
CalcGrans   == {1, 2, 8, 4096}
CalcOffsets == {0, 3, 10, 100, 101}
CalcLengths == {0, 1, 10, map_entire_file}

InitCalc == InitWith({1}, CalcGrans, CalcFile)

NextCalc ==
    \/ \E i \in Inst : DefaultCtor(i)
    \/ \E i \in Inst, off \in CalcOffsets, n \in CalcLengths, outcome \in PathOutcomes :
          PathCtor(i, off, n, outcome)
    \/ \E i \in Inst, off \in CalcOffsets, n \in CalcLengths, outcome \in PathOutcomes :
          MapPath(i, off, n, outcome)
    \/ \E i \in Inst : Unmap(i)
    \/ \E i \in Inst : Dtor(i)

SpecCalc == InitCalc /\ [][NextCalc]_vars

\* ------------------------------------------------------------- the claims
Open      == {i \in Inst : alive[i] /\ is_open(objs[i])}
AllDead   == \A i \in Inst : ~alive[i]
BaseOf(o) == o.data - o.offset_delta
InternalHandles == {h \in Handles : os.hs[h] = "internal"}

\* C1: every OS mapping that was created is released by exactly one unmap
\* call and every handle opened internally is closed exactly once.  No unmap
\* is issued for an address that holds no mapping and no close for a handle
\* that is not open (never twice); each live mapping and each internally
\* opened handle belongs to exactly one mapped instance, so that nothing is
\* left once every instance is destroyed (never zero times).
C1_ReleasedExactlyOnce ==
    /\ ~os.bad_unmap /\ ~os.bad_close
    /\ LiveBases(os) = {BaseOf(objs[i]) : i \in Open}
    /\ \A i, j \in Open : i # j => BaseOf(objs[i]) # BaseOf(objs[j])
    /\ InternalHandles = {objs[i].file_handle : i \in {x \in Open : objs[x].internal}}
    /\ \A i, j \in Open :
          i # j /\ objs[i].internal /\ objs[j].internal
             => objs[i].file_handle # objs[j].file_handle
    /\ AllDead => os.live = {} /\ InternalHandles = {}

\* the last instance, mapped from a path, has just been destroyed
C1_Witness == AllDead /\ last = "release_internal"

ReleaseStep(i) == Unmap(i) \/ Dtor(i)

\* C2: on unmap or destruction of a mapped instance the file handle is
\* closed iff the mapping was created from a path; a handle of the caller is
\* never closed by the mapped region.
C2_ClosedIffInternal ==
    /\ [](~os.ext_closed)
    /\ [][\A i \in Inst :
            ReleaseStep(i) /\ is_open(objs[i]) =>
               LET h == objs[i].file_handle
               IN  IF objs[i].internal
                   THEN os.hs[h] = "internal" /\ os'.hs[h] = "free"
                   ELSE os.hs[h] = "caller" /\ os'.hs = os.hs]_vars

\* an instance mapped from the caller's handle was released, the handle is
\* still open
C2_Witness == last = "release_external" /\ CallerHandles(os) # {} /\ ~os.ext_closed

\* the calls of map that the specification's error taxonomy makes fail
MapFails(n, off, outcome) ==
    n # 0 /\ (outcome \in {"open_fail", "size_fail"} \/ off > fsize
              \/ (outcome = "mmap_fail" /\ (n # map_entire_file \/ off < fsize)))

Unchanged(r, o) == r.err # "none" /\ r.o = o /\ r.os = os

\* C3: a map that fails, for whatever reason, reports the error and leaves
\* the object, and the OS resources, as they were before the call: still
\* unmapped, or still holding the old mapping; no handle stays open without
\* a mapping.
C3_FailedMapChangesNothing ==
    /\ \A i \in Inst, off \in Offsets, n \in Lengths :
          alive[i] =>
             /\ \A outcome \in PathOutcomes :
                   CanOpen(os, n, outcome) =>
                      LET r == map_path(objs[i], os, off, n, outcome)
                      IN  /\ MapFails(n, off, outcome) => r.err # "none"
                          /\ r.err # "none" => Unchanged(r, objs[i])
             /\ \A outcome \in HandleOutcomes, h \in HandleArgs(os) :
                   LET r == map_handle(objs[i], os, h, off, n, outcome)
                   IN  /\ MapFails(n, off, outcome) \/ (n # 0 /\ h = 0) => r.err # "none"
                       /\ r.err # "none" => Unchanged(r, objs[i])
    /\ InternalHandles \subseteq {objs[i].file_handle : i \in Open}

\* a map has just failed on an instance that was mapped, and still is
C3_Witness == last = "map_fail_mapped" /\ Open # {}

NothingMapped(o, s) == ~is_open(o) /\ empty(o) /\ s.live \subseteq os.live

\* C7: a map of 0 bytes, through map, a constructor or a factory, at any
\* offset, creates no OS mapping and leaves the instance unmapped and empty.
C7_ZeroLengthStaysUnmapped ==
    \A off \in Offsets :
       /\ \A outcome \in PathOutcomes :
             /\ \A i \in Inst :
                   alive[i] => LET r == map_path(objs[i], os, off, 0, outcome)
                               IN  NothingMapped(r.o, r.os)
             /\ LET c == ctor_path(os, off, 0, outcome)
                IN  NothingMapped(c.o, c.os)
             /\ \A elide \in BOOLEAN :
                   LET r == make_mmap(map_path(Unmapped, os, off, 0, outcome), elide)
                   IN  NothingMapped(r.o, r.os)
       /\ \A outcome \in HandleOutcomes, h \in HandleArgs(os) :
             /\ \A i \in Inst :
                   alive[i] => LET r == map_handle(objs[i], os, h, off, 0, outcome)
                               IN  NothingMapped(r.o, r.os)
             /\ LET c == ctor_handle(os, h, off, 0, outcome)
                IN  NothingMapped(c.o, c.os)
             /\ \A elide \in BOOLEAN :
                   LET r == make_mmap(map_handle(Unmapped, os, h, off, 0, outcome), elide)
                   IN  NothingMapped(r.o, r.os)

\* a map of 0 bytes has just returned
C7_Witness == last = "map_zero" /\ \E i \in Inst : alive[i] /\ ~is_open(objs[i]) /\ empty(objs[i])

MoveStep(d, s) == MoveCtor(d, s) \/ MoveAssign(d, s)

\* C8: a move of a mapped instance transfers is_open, data() and the sizes
\* exactly, the moved-from instance is not open, and a mapping is never
\* owned by two instances.
C8_MoveTransfers ==
    /\ [][\A d, s \in Inst :
            d # s /\ MoveStep(d, s) /\ is_open(objs[s]) =>
               /\ is_open(objs'[d])
               /\ data(objs'[d]) = data(objs[s])
               /\ size(objs'[d]) = size(objs[s])
               /\ length(objs'[d]) = length(objs[s])
               /\ mapped_length(objs'[d]) = mapped_length(objs[s])
               /\ offset(objs'[d]) = offset(objs[s])
               /\ ~is_open(objs'[s])]_vars
    /\ [](\A i, j \in Open : i # j => data(objs[i]) # data(objs[j]))

\* a mapped instance has just been moved, its mapping lives in the target
C8_Witness == last = "move_mapped" /\ Cardinality(Open) = 1

\* the state a path constructor leaves for (off, n)
PathBuilt(o, off, n) ==
    /\ is_open(o) /\ o.internal
    /\ o.offset = off
    /\ o.length = (IF n = map_entire_file THEN fsize - off ELSE n)
    /\ o.offset_delta = off - make_offset_page_aligned(off)
    /\ o.mapped_length = o.length + o.offset_delta

\* C9: a mapping constructed from a handle equals (operator==) a mapping
\* over the same file, offset and length that was constructed from a path.
C9_PathAndHandleEqual ==
    [][\A j \in Inst, off \in Offsets, n \in Lengths \ {0}, h \in Handles, outcome \in HandleOutcomes :
         HandleCtor(j, h, off, n, outcome) /\ outcome = "ok" /\ off <= fsize =>
            /\ alive'[j]
            /\ \A i \in Inst \ {j} :
                  alive[i] /\ PathBuilt(objs[i], off, n) => eq(objs'[i], objs'[j])]_vars

\* C4: in every reachable state mapped_length is at least
\* requested_length * sizeof(element) + offset_delta.
C4_RangeWithinMapping ==
    \A i \in Inst :
       alive[i] => objs[i].mapped_length >= size(objs[i]) * sz + objs[i].offset_delta

\* C5: set_length(k) fails with invalid_argument and changes nothing when
\* k * sizeof(element) + offset_delta > mapped_length; otherwise it succeeds
\* and changes the conceptual length, to k elements, and nothing else.
C5_SetLengthBound ==
    \A i \in Inst, k \in 0..MaxArg :
       alive[i] =>
          LET o == objs[i]
              r == set_length(o, k)
          IN  IF k * sz + o.offset_delta > o.mapped_length
              THEN r.err = "invalid_argument" /\ r.o = o
              ELSE r.err = "none" /\ r.o = [o EXCEPT !.length = r.o.length] /\ size(r.o) = k

\* C10: size(), length(), mapped_length() and offset() are the primitive's
\* byte counts divided by sizeof(CharT), and set_length(k) and set_offset(k)
\* hand k * sizeof(CharT) to the primitive, for every element size.
C10_ElementConversion ==
    \A i \in Inst :
       alive[i] =>
          LET o == objs[i]
          IN  /\ size(o) = impl_length(o) \div sz
              /\ length(o) = impl_length(o) \div sz
              /\ mapped_length(o) = impl_mapped_length(o) \div sz
              /\ offset(o) = impl_offset(o) \div sz
              /\ \A k \in 0..MaxArg :
                    /\ set_length(o, k) = impl_set_length(o, k * sz)
                    /\ set_offset(o, k) = impl_set_offset(o, k * sz)

\* the mapping a map call has added to the OS
Added(s) == s.live \ os.live

\* C6: for a requested byte offset off and n bytes the OS is asked for the
\* file offset off - (off mod granularity) and for n + offset_delta bytes,
\* with offset_delta = off - aligned offset and 0 <= offset_delta <
\* granularity, and data() is the byte at off from the start of the file;
\* bytes [10, 20) of the 100-byte file at granularity 4096 give aligned
\* offset 0, at least 20 mapped bytes, offset_delta 10, offset() = 10 and
\* size() = 10.
C6_AlignedRegion ==
    \A i \in Inst, off \in CalcOffsets, n \in CalcLengths \ {0, map_entire_file} :
       alive[i] /\ off <= fsize /\ FreeHandles(os) # {} =>
          LET r == map_path(objs[i], os, off, n, "ok")
          IN  /\ r.err = "none" /\ is_open(r.o)
              /\ Cardinality(Added(r.os)) = 1
              /\ \A m \in Added(r.os) :
                    /\ m.off = off - (off % gran)
                    /\ m.off % gran = 0
                    /\ r.o.offset_delta = off - m.off
                    /\ 0 <= r.o.offset_delta /\ r.o.offset_delta < gran
                    /\ m.len = n + r.o.offset_delta
                    /\ impl_mapped_length(r.o) = m.len
                    /\ m.off + (data(r.o) - m.base) = off
                    /\ (gran = 4096 /\ off = 10 /\ n = 10) =>
                          /\ m.off = 0 /\ m.len >= 20 /\ r.o.offset_delta = 10
                          /\ offset(r.o) = 10 /\ size(r.o) = 10

\* bytes [10, 20) of the 100-byte file are mapped at granularity 4096
C6_Witness ==
    /\ gran = 4096 /\ fsize = 100
    /\ \E i \in Open : offset(objs[i]) = 10 /\ size(objs[i]) = 10
                       /\ objs[i].offset_delta = 10 /\ objs[i].mapped_length = 20

====
